---- MODULE Spec2Model ----
(***************************************************************************)
(* KRA invoice checker, batch page (src/test.html).                        *)
(*                                                                         *)
(* Text is modelled as a sequence of characters (one-character strings),   *)
(* so that trimming, splitting and filtering are computed as the script    *)
(* computes them.                                                          *)
(***************************************************************************)
EXTENDS Naturals, Sequences, FiniteSets, Bags, TLC

VARIABLES
    invoiceNumbersValue,  \* value of the <textarea id="invoiceNumbers">
    parsedMixed,          \* parseInvoiceNumbers() of the textarea as typed
    parsedNewlines,       \* ... of the same pieces joined by newlines only
    parsedCommas,         \* ... of the same pieces joined by commas only
    apiUrlValue,          \* value of the <input id="apiUrl">
    currentResults,       \* the script's global: null (None) or the stored report
    pc,                   \* where checkInvoices() is suspended: idle, fetch, text, json
    invoiceNumbers,       \* checkInvoices(): const invoiceNumbers
    apiUrl,               \* checkInvoices(): const apiUrl
    responseStatus,       \* checkInvoices(): response.status (0: no response yet)
    requests,             \* fetch() requests issued and not yet settled
    spinnerDisplay,       \* #spinner style.display
    checkButtonDisabled,  \* #checkButton disabled
    apiErrorDisplay,      \* #apiError style.display
    apiErrorText,         \* #apiError textContent
    resultsDisplay,       \* #results style.display
    totalCount,           \* #totalCount textContent
    successCount,         \* #successCount textContent
    errorCount,           \* #errorCount textContent
    invoiceList,          \* the <li> items of #invoiceList
    alertMessage,         \* the open alert() dialog, None when there is none
    now,                  \* the clock new Date() reads
    download,             \* the file the last a.click() saved, None before any
    readyState,           \* document.readyState: interactive before DOMContentLoaded
    probes,               \* the fetches of testConnection(), in the order issued
    connected,            \* #connectionIndicator has the class `connected`
    connectionStatus,     \* #connectionStatus textContent
    checkers,             \* where each single-invoice checker is suspended
    invoicePage           \* single page: its elements and the fetches of checkInvoice()

parseVars == <<parsedMixed, parsedNewlines, parsedCommas>>
runVars == <<pc, invoiceNumbers, apiUrl, responseStatus, requests>>
buttonVars == <<spinnerDisplay, checkButtonDisabled>>
errorVars == <<apiErrorDisplay, apiErrorText>>
resultVars == <<resultsDisplay, totalCount, successCount, errorCount, invoiceList>>
exportVars == <<download>>
probeVars == <<readyState, probes, connected, connectionStatus>>
checkerVars == <<checkers>>
singleVars == <<invoicePage>>
sideVars == <<probeVars, checkerVars, singleVars>>
pageVars == <<apiUrlValue, currentResults, runVars, buttonVars, errorVars,
              resultVars, alertMessage, now, exportVars, sideVars>>
vars == <<invoiceNumbersValue, parseVars, pageVars>>

-----------------------------------------------------------------------------
(* Characters and bounds *)

NL == "\n"
COMMA == ","
SP == " "

\* What String.prototype.trim() removes (the members the inputs can hold).
WhiteSpace == {SP, NL, "\t", "\r"}

\* Characters the enumerated textarea inputs are made of.
Alphabet == {"a", "b", SP, COMMA, NL}

\* Longest enumerated textarea input.
MaxLen == 5

\* An optional value: <<>> is "none", <<v>> is "some v".
None == <<>>
Some(v) == <<v>>

RECURSIVE StringsOfLen(_)
StringsOfLen(n) ==
    IF n = 0 THEN {<<>>}
    ELSE {<<c>> \o s : c \in Alphabet, s \in StringsOfLen(n - 1)}

Strings == UNION {StringsOfLen(n) : n \in 0..MaxLen}

\* The input of the parser's documented example, "a\nb,c\n\nd".
ExampleText == <<"a", NL, "b", COMMA, "c", NL, NL, "d">>

-----------------------------------------------------------------------------
(* String and array primitives of the script *)

RECURSIVE TrimStart(_)
TrimStart(s) ==
    IF s = <<>> THEN <<>>
    ELSE IF Head(s) \in WhiteSpace THEN TrimStart(Tail(s))
    ELSE s

RECURSIVE TrimEnd(_)
TrimEnd(s) ==
    IF s = <<>> THEN <<>>
    ELSE IF s[Len(s)] \in WhiteSpace THEN TrimEnd(SubSeq(s, 1, Len(s) - 1))
    ELSE s

\* String.prototype.trim
Trim(s) == TrimEnd(TrimStart(s))

\* String.prototype.split(sep) for a one-character separator: always at
\* least one piece, ''.split(sep) being [''].
RECURSIVE Split(_, _)
Split(s, sep) ==
    IF s = <<>> THEN << <<>> >>
    ELSE LET rest == Split(Tail(s), sep)
         IN  IF Head(s) = sep
             THEN << <<>> >> \o rest
             ELSE << <<Head(s)>> \o rest[1] >> \o Tail(rest)

\* String.prototype.includes for a one-character needle
Includes(s, c) == \E i \in 1..Len(s) : s[i] = c

\* Array.prototype.map(x => x.trim())
MapTrim(xs) == [i \in 1..Len(xs) |-> Trim(xs[i])]

\* Array.prototype.filter(Boolean) on strings: '' is the only falsy string
RECURSIVE FilterBoolean(_)
FilterBoolean(xs) ==
    IF xs = <<>> THEN <<>>
    ELSE IF Head(xs) = <<>> THEN FilterBoolean(Tail(xs))
    ELSE <<Head(xs)>> \o FilterBoolean(Tail(xs))

\* LineNumbers with the comma-separated pieces left untrimmed
LineNumbers_PiecesUntrimmed(line) ==
    IF line = <<>> THEN <<>>
    ELSE IF Includes(line, COMMA)
         THEN FilterBoolean(Split(line, COMMA))
         ELSE <<line>>

\* The body of lines.forEach(line => ...): what one line pushes on numbers
LineNumbers(line) ==
    IF line = <<>> THEN <<>>
    ELSE IF Includes(line, COMMA)
         THEN FilterBoolean(MapTrim(Split(line, COMMA)))
         ELSE <<line>>

RECURSIVE PushAll(_)
PushAll(lines) ==
    IF lines = <<>> THEN <<>>
    ELSE LineNumbers(Head(lines)) \o PushAll(Tail(lines))

\* Array de-duplication, [...new Set(xs)]: first occurrences, in order
RECURSIVE Unique(_)
Unique(xs) ==
    IF xs = <<>> THEN <<>>
    ELSE LET init == Unique(SubSeq(xs, 1, Len(xs) - 1))
             last == xs[Len(xs)]
         IN  IF \E i \in 1..Len(init) : init[i] = last THEN init
             ELSE Append(init, last)

RECURSIVE SplitEachUnfiltered(_)
SplitEachUnfiltered(lines) ==
    IF lines = <<>> THEN <<>>
    ELSE MapTrim(Split(Head(lines), COMMA)) \o SplitEachUnfiltered(Tail(lines))

\* parseInvoiceNumbers without either filter(Boolean)
parseInvoiceNumbers_Unfiltered(value) ==
    SplitEachUnfiltered(MapTrim(Split(Trim(value), NL)))

\* parseInvoiceNumbers with the lines left untrimmed
parseInvoiceNumbers_LinesUntrimmed(value) ==
    FilterBoolean(PushAll(Split(Trim(value), NL)))

\* parseInvoiceNumbers returning each identifier once
parseInvoiceNumbers_Unique(value) ==
    Unique(FilterBoolean(PushAll(MapTrim(Split(Trim(value), NL)))))

\* parseInvoiceNumbers(), as a function of the textarea's value
parseInvoiceNumbers(value) ==
    LET input == Trim(value)
        lines == MapTrim(Split(input, NL))
        numbers == PushAll(lines)
    IN  FilterBoolean(numbers)

\* The same separator-free pieces joined by one separator only
RECURSIVE ReplaceChar(_, _, _)
ReplaceChar(s, from, to) ==
    IF s = <<>> THEN <<>>
    ELSE <<IF Head(s) = from THEN to ELSE Head(s)>> \o ReplaceChar(Tail(s), from, to)

-----------------------------------------------------------------------------
(* The batch page: values *)

\* A URL is a sequence of pieces; the verification sub-path is one piece.
DetailsPath == "/invoices/details"
DEFAULT_API_URL ==
    <<"https://qr-code-scanner-kra-production.up.railway.app", DetailsPath>>
LOCAL_API_URL == <<"http://127.0.0.1:8000", DetailsPath>>

\* What the user may have typed into the API URL field when a step reads it
ApiUrlInputs == {DEFAULT_API_URL, LOCAL_API_URL, <<SP>>}

\* What the user may have typed into the textarea when the button is clicked
PageTexts ==
    { <<>>,
      <<SP, COMMA>>,
      <<"a">>,
      <<"a", COMMA, "a">>,
      <<"b", NL, "a">> }

\* Last instant of the clock
MaxClock == 1

\* Date.prototype.toISOString, for instants within one minute
Digits == <<"0", "1", "2", "3", "4", "5", "6", "7", "8", "9">>
toISOString(t) ==
    <<"2025-01-01T00", ":", "00", ":",
      Digits[(t \div 10) + 1], Digits[(t % 10) + 1], ".", "000Z">>

\* JSON values of the `results` key. A JSON string is a text: a sequence of
\* characters, where a run of characters that no operation looks into may
\* stand as one element.
JArray(items) == [type |-> "array", items |-> items, text |-> <<>>]
JString(text) == [type |-> "string", items |-> <<>>, text |-> text]

\* A JavaScript object is a function from its keys
EmptyObject == [k \in {} |-> <<>>]
Has(obj, key) == key \in DOMAIN obj

\* Object spread, { ...base, ...over }
Spread(base, over) ==
    [k \in DOMAIN base \cup DOMAIN over |->
        IF k \in DOMAIN over THEN over[k] ELSE base[k]]

DataFields ==
    <<"Control Unit Invoice Number", "Trader System Invoice No", "Invoice Date",
      "Total Taxable Amount", "Total Tax Amount", "Total Invoice Amount",
      "Supplier Name">>

\* `${x}` and x.y of a key that may be absent: undefined prints "undefined"
Interpolate(obj, key) == IF Has(obj, key) THEN obj[key] ELSE <<"undefined">>

\* Entries the remote service may return: the elements of `results` are objects
SuccessEntry(number) ==
    [invoice_number |-> <<number>>, status |-> <<"success">>,
     data |-> [k \in {"Invoice Date", "Supplier Name"} |->
                  IF k = "Invoice Date" THEN <<"01/01/2025">> ELSE <<"ACME LTD">>]]
ErrorEntry(number) ==
    [invoice_number |-> <<number>>, status |-> <<"error">>,
     error |-> <<"Invoice not found">>]

\* response.json(): a parsed body is JSON null or an object
NullPayload == [isNull |-> TRUE, fields |-> EmptyObject]
ObjectPayload(fields) == [isNull |-> FALSE, fields |-> fields]

\* Bodies the remote service may answer a 2xx with
Payloads ==
    { NullPayload,
      ObjectPayload(EmptyObject),
      ObjectPayload([results |-> JString(<<"none">>)]),
      ObjectPayload([results |-> JArray(<<>>)]),
      ObjectPayload([results |-> JArray(<<SuccessEntry("a")>>)]),
      ObjectPayload([results |-> JArray(<<ErrorEntry("b"), SuccessEntry("a")>>)]),
      ObjectPayload([results |-> JArray(<<SuccessEntry("a")>>),
                     timestamp |-> <<"remote">>,
                     apiUrl |-> <<"remote">>,
                     invoices_requested |-> << <<"remote">> >>]) }

\* Statuses and bodies the remote service may answer with
Statuses == {200, 404, 500}
StatusText(status) ==
    CASE status = 200 -> "200"
      [] status = 404 -> "404"
      [] status = 500 -> "500"
ErrorBodies == {"", "Internal Server Error"}

\* Response.ok
ResponseOk(status) == status \in 200..299

\* error.message of the failures checkInvoices() catches
TimeoutMessage == <<"signal timed out">>
FetchFailedMessage == <<"Failed to fetch">>
BodyFailedMessage == <<"network error">>
JsonSyntaxMessage == <<"Unexpected token '<' is not valid JSON">>
NullResultsMessage == <<"Cannot read properties of null (reading 'results')">>

\* HttpErrorMessage without the body text
HttpErrorMessage_StatusOnly(status, errorText) ==
    <<"API returned status ", StatusText(status)>>

\* `API returned status ${response.status}: ${errorText}`
HttpErrorMessage(status, errorText) ==
    <<"API returned status ", StatusText(status), ": ", errorText>>

InvalidFormatText == <<"Invalid response format from API">>
EmptyInputAlert == "Please enter at least one invoice number"
EmptyUrlAlert == "Please enter the API URL"

\* One request per identifier
BatchRequests_PerIdentifier(url, numbers) ==
    [i \in 1..Len(numbers) |->
        [method |-> "POST", url |-> url,
         body |-> [invoice_numbers |-> <<numbers[i]>>]]]

\* One request whose body lists every identifier once
BatchRequests_UniqueBody(url, numbers) ==
    << [method |-> "POST", url |-> url,
        body |-> [invoice_numbers |-> Unique(numbers)]] >>

\* The fetch() calls of one run: one POST of { invoice_numbers: [...] }
BatchRequests(url, numbers) ==
    << [method |-> "POST", url |-> url,
        body |-> [invoice_numbers |-> numbers]] >>

\* displayResults: data.results && Array.isArray(data.results)
HasResultsArray(fields) == Has(fields, "results") /\ fields.results.type = "array"

\* The report with no more results than identifiers were requested
Report_AlignedToRequest(t, url, numbers, data) ==
    LET report == Spread([timestamp |-> toISOString(t),
                          apiUrl |-> url,
                          invoices_requested |-> numbers],
                         data.fields)
    IN  IF HasResultsArray(report) /\ Len(report.results.items) > Len(numbers)
        THEN [report EXCEPT !.results =
                 JArray(SubSeq(report.results.items, 1, Len(numbers)))]
        ELSE report

\* currentResults = { timestamp, apiUrl, invoices_requested, ...data }
Report(t, url, numbers, data) ==
    Spread([timestamp |-> toISOString(t),
            apiUrl |-> url,
            invoices_requested |-> numbers],
           data.fields)

\* result.status === 'success'
IsSuccess(result) == Has(result, "status") /\ result.status = <<"success">>

\* The count of the results whose status is not 'error'
RECURSIVE CountSuccess_NotError(_)
CountSuccess_NotError(results) ==
    IF results = <<>> THEN 0
    ELSE (IF Has(Head(results), "status") /\ Head(results).status = <<"error">>
          THEN 0 ELSE 1) + CountSuccess_NotError(Tail(results))

\* results.filter(r => r.status === 'success').length
RECURSIVE CountSuccess(_)
CountSuccess(results) ==
    IF results = <<>> THEN 0
    ELSE (IF IsSuccess(Head(results)) THEN 1 ELSE 0) + CountSuccess(Tail(results))

\* displayResults: the <li> built for one result
ListItem(result) ==
    LET isSuccess == IsSuccess(result)
    IN  [invoice_number |-> Interpolate(result, "invoice_number"),
         badge |-> IF isSuccess THEN "SUCCESS" ELSE "ERROR",
         details |->
             IF isSuccess /\ Has(result, "data")
             THEN [i \in 1..Len(DataFields) |->
                      [label |-> DataFields[i],
                       value |-> IF Has(result.data, DataFields[i])
                                    /\ result.data[DataFields[i]] # <<>>
                                 THEN result.data[DataFields[i]]
                                 ELSE <<"N/A">>]]
             ELSE IF Has(result, "error") /\ result.error # <<>>
             THEN << [label |-> "Error", value |-> result.error] >>
             ELSE <<>>]

-----------------------------------------------------------------------------
(* The batch page: exports *)

QUOTE == "\""
BACKSLASH == "\\"
APOSTROPHE == "'"

\* Bodies the remote service may answer a 2xx with, for the report and its
\* exports
QuotedName == <<"A", QUOTE, COMMA, QUOTE, "B">>
QuotedEntry(number) ==
    [invoice_number |-> <<number>>, status |-> <<"success">>,
     data |-> [k \in {"Control Unit Invoice Number", "Supplier Name"} |->
                  IF k = "Supplier Name" THEN QuotedName ELSE <<"0010">>]]
BareEntry(number) == [invoice_number |-> <<number>>]
\* An entry the remote service marks as failed and still fills with data
MixedEntry(number) ==
    [invoice_number |-> <<number>>, status |-> <<"error">>,
     error |-> <<"Invoice not found">>,
     data |-> [k \in {"Supplier Name"} |-> <<"ACME LTD">>]]
ReportPayloads ==
    { ObjectPayload(EmptyObject),
      ObjectPayload([results |-> JString(<<"none">>)]),
      ObjectPayload([results |-> JArray(<<>>)]),
      ObjectPayload([results |-> JArray(<<SuccessEntry("a")>>)]),
      ObjectPayload([results |->
          JArray(<<SuccessEntry("a"), ErrorEntry("b"), SuccessEntry("c")>>)]),
      ObjectPayload([results |-> JArray(<<BareEntry("a"), ErrorEntry("b")>>)]),
      ObjectPayload([results |-> JArray(<<QuotedEntry("a")>>)]),
      ObjectPayload([results |-> JArray(<<MixedEntry("a")>>)]),
      ObjectPayload([results |-> JArray(<<ErrorEntry("a")>>),
                     timestamp |-> <<"remote">>,
                     apiUrl |-> <<"remote">>,
                     invoices_requested |-> << <<"remote">> >>]) }

\* What the user may have typed into the textarea, for the report
ReportTexts == { <<"a", COMMA, "b">> }

\* A value as JSON.stringify() walks it
JsonString(text) == [type |-> "string", text |-> text]
JsonArray(items) == [type |-> "array", items |-> items]
JsonObject(keys, values) == [type |-> "object", keys |-> keys, values |-> values]

\* The own keys of an object, in the order they were set
ReportKeys == <<"timestamp", "apiUrl", "invoices_requested", "results">>
EntryKeys == <<"invoice_number", "status", "data", "error">>
OwnKeys(order, obj) == SelectSeq(order, LAMBDA k : Has(obj, k))
KeyTexts(keys) == [i \in 1..Len(keys) |-> <<keys[i]>>]

DataValue(data) ==
    LET keys == OwnKeys(DataFields, data)
    IN  JsonObject(KeyTexts(keys), [i \in 1..Len(keys) |-> JsonString(data[keys[i]])])

EntryValue(result) ==
    LET keys == OwnKeys(EntryKeys, result)
    IN  JsonObject(KeyTexts(keys),
                   [i \in 1..Len(keys) |->
                       IF keys[i] = "data" THEN DataValue(result.data)
                       ELSE JsonString(result[keys[i]])])

ResultsValue(results) ==
    IF results.type = "array"
    THEN JsonArray([i \in 1..Len(results.items) |-> EntryValue(results.items[i])])
    ELSE JsonString(results.text)

\* currentResults as JSON.stringify() walks it
ReportValue(report) ==
    LET keys == OwnKeys(ReportKeys, report)
    IN  JsonObject(KeyTexts(keys),
                   [i \in 1..Len(keys) |->
                       IF keys[i] = "invoices_requested"
                       THEN JsonArray([j \in 1..Len(report.invoices_requested) |->
                                          JsonString(report.invoices_requested[j])])
                       ELSE IF keys[i] = "results" THEN ResultsValue(report.results)
                       ELSE JsonString(report[keys[i]])])

\* JSON.stringify(value, null, 2): the third argument
JsonIndent == 2
Pad(n) == [i \in 1..n |-> SP]

\* A string written with no escapes
EscapeJson_Unescaped(text) == text

\* JSON.stringify: the escapes of a string
RECURSIVE EscapeJson(_)
EscapeJson(text) ==
    IF text = <<>> THEN <<>>
    ELSE (IF Head(text) = QUOTE THEN <<BACKSLASH, QUOTE>>
          ELSE IF Head(text) = BACKSLASH THEN <<BACKSLASH, BACKSLASH>>
          ELSE IF Head(text) = NL THEN <<BACKSLASH, "n">>
          ELSE <<Head(text)>>) \o EscapeJson(Tail(text))

QuoteJson(text) == <<QUOTE>> \o EscapeJson(text) \o <<QUOTE>>

\* JSON.stringify(value, null, 2), at an indentation
RECURSIVE stringify(_, _), StringifyMembers(_, _, _)
StringifyMembers(value, i, indent) ==
    LET count == IF value.type = "object" THEN Len(value.keys) ELSE Len(value.items)
        member ==
            Pad(indent) \o
            (IF value.type = "object"
             THEN QuoteJson(value.keys[i]) \o <<":", SP>>
                  \o stringify(value.values[i], indent)
             ELSE stringify(value.items[i], indent))
    IN  IF i = count THEN member
        ELSE member \o <<COMMA, NL>> \o StringifyMembers(value, i + 1, indent)
stringify(value, indent) ==
    IF value.type = "string" THEN QuoteJson(value.text)
    ELSE LET isObject == value.type = "object"
             count == IF isObject THEN Len(value.keys) ELSE Len(value.items)
             open == IF isObject THEN "{" ELSE "["
             close == IF isObject THEN "}" ELSE "]"
         IN  IF count = 0 THEN <<open, close>>
             ELSE <<open, NL>> \o StringifyMembers(value, 1, indent + JsonIndent)
                  \o <<NL>> \o Pad(indent) \o <<close>>

\* exportCSV: const columns
columns ==
    <<"Invoice Number", "Status", "Error", "Control Unit Invoice Number",
      "Trader System Invoice No", "Invoice Date", "Total Taxable Amount",
      "Total Tax Amount", "Total Invoice Amount", "Supplier Name">>

\* Array.prototype.join
RECURSIVE Join(_, _)
Join(texts, sep) ==
    IF texts = <<>> THEN <<>>
    ELSE IF Len(texts) = 1 THEN texts[1]
    ELSE texts[1] \o <<sep>> \o Join(Tail(texts), sep)

\* obj[key] || ''
OrEmpty(obj, key) == IF Has(obj, key) THEN obj[key] ELSE <<>>

\* result.data ? (result.data[key] || '') : ''
DataCell(result, key) == IF Has(result, "data") THEN OrEmpty(result.data, key) ELSE <<>>

\* The row with the status and error cells in each other's place
row_ErrorBeforeStatus(result) ==
    << <<QUOTE, APOSTROPHE>> \o Interpolate(result, "invoice_number") \o <<QUOTE>>,
       <<QUOTE>> \o OrEmpty(result, "error") \o <<QUOTE>>,
       <<QUOTE>> \o Interpolate(result, "status") \o <<QUOTE>>,
       <<APOSTROPHE>> \o DataCell(result, "Control Unit Invoice Number"),
       <<QUOTE>> \o DataCell(result, "Trader System Invoice No") \o <<QUOTE>>,
       <<QUOTE>> \o DataCell(result, "Invoice Date") \o <<QUOTE>>,
       <<QUOTE>> \o DataCell(result, "Total Taxable Amount") \o <<QUOTE>>,
       <<QUOTE>> \o DataCell(result, "Total Tax Amount") \o <<QUOTE>>,
       <<QUOTE>> \o DataCell(result, "Total Invoice Amount") \o <<QUOTE>>,
       <<QUOTE>> \o DataCell(result, "Supplier Name") \o <<QUOTE>> >>

\* exportCSV: const row
row(result) ==
    << <<QUOTE, APOSTROPHE>> \o Interpolate(result, "invoice_number") \o <<QUOTE>>,
       <<QUOTE>> \o Interpolate(result, "status") \o <<QUOTE>>,
       <<QUOTE>> \o OrEmpty(result, "error") \o <<QUOTE>>,
       <<APOSTROPHE>> \o DataCell(result, "Control Unit Invoice Number"),
       <<QUOTE>> \o DataCell(result, "Trader System Invoice No") \o <<QUOTE>>,
       <<QUOTE>> \o DataCell(result, "Invoice Date") \o <<QUOTE>>,
       <<QUOTE>> \o DataCell(result, "Total Taxable Amount") \o <<QUOTE>>,
       <<QUOTE>> \o DataCell(result, "Total Tax Amount") \o <<QUOTE>>,
       <<QUOTE>> \o DataCell(result, "Total Invoice Amount") \o <<QUOTE>>,
       <<QUOTE>> \o DataCell(result, "Supplier Name") \o <<QUOTE>> >>

\* exportCSV: let csvContent, after the forEach
RECURSIVE csvRows(_)
csvRows(results) ==
    IF results = <<>> THEN <<>>
    ELSE Join(row(Head(results)), COMMA) \o <<NL>> \o csvRows(Tail(results))
csvContent(results) == Join(KeyTexts(columns), COMMA) \o <<NL>> \o csvRows(results)

\* The file name with the instant as toISOString() prints it
ExportFileName_Undashed(t, extension) ==
    <<"kra_invoice_results_">> \o toISOString(t) \o <<extension>>

\* `kra_invoice_results_${new Date().toISOString().replace(/[:.]/g, '-')}.json`
ExportFileName(t, extension) ==
    <<"kra_invoice_results_">>
        \o ReplaceChar(ReplaceChar(toISOString(t), ":", "-"), ".", "-")
        \o <<extension>>

NoResultsAlert == "No results to export"

\* !currentResults.results: undefined and '' are falsy, an array is truthy
HasResults(report) ==
    /\ Has(report, "results")
    /\ report.results.type = "string" => report.results.text # <<>>

-----------------------------------------------------------------------------
(* The batch page: state after load *)

PageLoaded ==
    /\ apiUrlValue = DEFAULT_API_URL
    /\ currentResults = None
    /\ pc = "idle"
    /\ invoiceNumbers = <<>>
    /\ apiUrl = <<>>
    /\ responseStatus = 0
    /\ requests = <<>>
    /\ spinnerDisplay = "none"
    /\ checkButtonDisabled = FALSE
    /\ apiErrorDisplay = "none"
    /\ apiErrorText = <<>>
    /\ resultsDisplay = "none"
    /\ totalCount = 0
    /\ successCount = 0
    /\ errorCount = 0
    /\ invoiceList = <<>>
    /\ alertMessage = None
    /\ now = 0
    /\ download = None
    /\ readyState = "interactive"
    /\ probes = <<>>
    /\ connected = FALSE
    /\ connectionStatus = <<"Checking API connection...">>

\* The single-invoice checkers, none of them called yet
CheckerNames == {"library", "commandLine", "localClient", "proxyRoute"}
CheckersIdle ==
    checkers = [c \in CheckerNames |-> [pc |-> "idle", status |-> 0, outcome |-> None]]

\* The single-invoice page (src/invoice-checker.html) after load
InvoicePageLoaded ==
    invoicePage =
        [invoiceNumberValue |-> <<>>,       \* value of <input id="invoiceNumber">
         requests |-> <<>>,                 \* the fetches of checkInvoice(), in order
         checkButtonDisabled |-> FALSE,     \* #checkButton disabled
         loadingDisplay |-> "none",         \* #loading style.display
         errorDisplay |-> "none",           \* #error style.display
         errorText |-> <<>>,                \* #error textContent
         resultDisplay |-> "none",          \* #result style.display
         resultContent |-> <<>>]            \* the rows of #resultContent

Init ==
    /\ invoiceNumbersValue = <<>>
    /\ parsedMixed = None
    /\ parsedNewlines = None
    /\ parsedCommas = None
    /\ PageLoaded
    /\ CheckersIdle
    /\ InvoicePageLoaded

-----------------------------------------------------------------------------
(* The batch page: steps *)

\* The clock advances
Tick ==
    /\ now < MaxClock
    /\ now' = now + 1
    /\ UNCHANGED <<invoiceNumbersValue, parseVars, exportVars, sideVars, apiUrlValue, currentResults,
                   runVars, buttonVars, errorVars, resultVars, alertMessage>>

\* The user edits the API URL field
TypeApiUrl(url) ==
    /\ alertMessage = None
    /\ url # apiUrlValue
    /\ apiUrlValue' = url
    /\ UNCHANGED <<invoiceNumbersValue, parseVars, exportVars, sideVars, currentResults, runVars,
                   buttonVars, errorVars, resultVars, alertMessage, now>>

\* The user closes the alert() dialog
DismissAlert ==
    /\ alertMessage # None
    /\ alertMessage' = None
    /\ UNCHANGED <<invoiceNumbersValue, parseVars, exportVars, sideVars, apiUrlValue, currentResults,
                   runVars, buttonVars, errorVars, resultVars, now>>

\* alert(message); return;
AlertAndReturn(message) ==
    /\ alertMessage' = Some(message)
    /\ UNCHANGED <<parseVars, exportVars, sideVars, apiUrlValue, currentResults, runVars, buttonVars,
                   errorVars, resultVars, now>>

\* The length test that never finds the list empty
NoInvoiceNumbers_Never(numbers) == FALSE

\* invoiceNumbers.length === 0
NoInvoiceNumbers(numbers) == Len(numbers) = 0

\* The spinner shown with the button left enabled
ShowSpinner_ButtonEnabled ==
    /\ spinnerDisplay' = "inline-block"
    /\ checkButtonDisabled' = FALSE
    /\ apiErrorDisplay' = "none"

\* Show spinner, disable button, hide the last error
ShowSpinner ==
    /\ spinnerDisplay' = "inline-block"
    /\ checkButtonDisabled' = TRUE
    /\ apiErrorDisplay' = "none"

\* checkInvoices() up to its first await. The textarea is read by this step
\* only, so the user's edit of it is part of the step: text is its value
\* when the button is clicked.
CheckInvoices(text) ==
    /\ alertMessage = None
    /\ ~checkButtonDisabled
    /\ invoiceNumbersValue' = text
    /\ LET numbers == parseInvoiceNumbers(text)
           url == Trim(apiUrlValue)
       IN  IF NoInvoiceNumbers(numbers) THEN AlertAndReturn(EmptyInputAlert)
           ELSE IF url = <<>> THEN AlertAndReturn(EmptyUrlAlert)
           ELSE /\ ShowSpinner
                /\ invoiceNumbers' = numbers
                /\ apiUrl' = url
                /\ responseStatus' = 0
                /\ requests' = BatchRequests(url, numbers)
                /\ pc' = "fetch"
                /\ UNCHANGED <<parseVars, exportVars, sideVars, apiUrlValue, currentResults,
                               apiErrorText, resultVars, alertMessage, now>>

\* finally { ... }: the run is over, its request settled
Finally ==
    /\ spinnerDisplay' = "none"
    /\ checkButtonDisabled' = FALSE
    /\ pc' = "idle"
    /\ invoiceNumbers' = <<>>
    /\ apiUrl' = <<>>
    /\ responseStatus' = 0
    /\ requests' = <<>>

\* catch (error) { ... } finally { ... }
Catch(message) ==
    /\ apiErrorText' = <<"Error: ">> \o message
    /\ apiErrorDisplay' = "block"
    /\ Finally

\* The 45 s timer never arms
BatchTimeout_Unarmed ==
    /\ FALSE
    /\ UNCHANGED vars

\* AbortSignal.timeout(45000) fires while the fetch or its body is awaited
BatchTimeout ==
    /\ pc # "idle"
    /\ Catch(TimeoutMessage)
    /\ UNCHANGED <<invoiceNumbersValue, parseVars, exportVars, sideVars, apiUrlValue, currentResults,
                   resultVars, alertMessage, now>>

\* The connection fails while the fetch or its body is awaited
BatchNetworkError ==
    /\ pc # "idle"
    /\ Catch(IF pc = "fetch" THEN FetchFailedMessage ELSE BodyFailedMessage)
    /\ UNCHANGED <<invoiceNumbersValue, parseVars, exportVars, sideVars, apiUrlValue, currentResults,
                   resultVars, alertMessage, now>>

\* fetch() resolves with the response's status line and headers
FetchResolves(status) ==
    /\ pc = "fetch"
    /\ responseStatus' = status
    /\ pc' = IF ResponseOk(status) THEN "json" ELSE "text"
    /\ UNCHANGED <<invoiceNumbersValue, parseVars, exportVars, sideVars, apiUrlValue, currentResults,
                   invoiceNumbers, apiUrl, requests, buttonVars, errorVars,
                   resultVars, alertMessage, now>>

\* response.text() resolves: throw new Error(`API returned status ...`)
ErrorTextArrives(errorText) ==
    /\ pc = "text"
    /\ Catch(HttpErrorMessage(responseStatus, errorText))
    /\ UNCHANGED <<invoiceNumbersValue, parseVars, exportVars, sideVars, apiUrlValue, currentResults,
                   resultVars, alertMessage, now>>

\* response.json() rejects: the body is not JSON
JsonRejects ==
    /\ pc = "json"
    /\ Catch(JsonSyntaxMessage)
    /\ UNCHANGED <<invoiceNumbersValue, parseVars, exportVars, sideVars, apiUrlValue, currentResults,
                   resultVars, alertMessage, now>>

\* response.json() resolves with data: the report is stored, then
\* displayResults(data) runs, then finally
JsonArrives(data) ==
    /\ pc = "json"
    /\ currentResults' = Some(Report(now, apiUrl, invoiceNumbers, data))
    /\ IF data.isNull
       THEN \* data.results throws a TypeError, caught by checkInvoices
            /\ invoiceList' = <<>>
            /\ apiErrorText' = <<"Error: ">> \o NullResultsMessage
            /\ apiErrorDisplay' = "block"
            /\ UNCHANGED <<resultsDisplay, totalCount, successCount, errorCount>>
       ELSE IF ~HasResultsArray(data.fields)
       THEN /\ invoiceList' = <<>>
            /\ apiErrorText' = InvalidFormatText
            /\ apiErrorDisplay' = "block"
            /\ UNCHANGED <<resultsDisplay, totalCount, successCount, errorCount>>
       ELSE LET results == data.fields.results.items
            IN  /\ invoiceList' = [i \in 1..Len(results) |-> ListItem(results[i])]
                /\ totalCount' = Len(results)
                /\ successCount' = CountSuccess(results)
                /\ errorCount' = Len(results) - CountSuccess(results)
                /\ resultsDisplay' = "block"
                /\ UNCHANGED errorVars
    /\ Finally
    /\ UNCHANGED <<invoiceNumbersValue, parseVars, exportVars, sideVars, apiUrlValue,
                   alertMessage, now>>

\* The export that drops the stored report once the file is written
Save_DropsReport(name, type, content) ==
    /\ download' = Some([name |-> name, type |-> type, content |-> content])
    /\ currentResults' = None
    /\ UNCHANGED <<invoiceNumbersValue, parseVars, sideVars, apiUrlValue,
                   runVars, buttonVars, errorVars, resultVars, alertMessage, now>>

\* a.click() on the link to the blob
Save(name, type, content) ==
    /\ download' = Some([name |-> name, type |-> type, content |-> content])
    /\ UNCHANGED <<invoiceNumbersValue, parseVars, sideVars, apiUrlValue, currentResults,
                   runVars, buttonVars, errorVars, resultVars, alertMessage, now>>

\* exportJSON(). The function is a global of the page: the Export JSON button
\* calls it, and the button is inside #results, which is shown once a run has
\* displayed results; the function itself does not look at what is shown.
ExportJSON ==
    /\ alertMessage = None
    /\ IF currentResults = None
       THEN /\ invoiceNumbersValue' = invoiceNumbersValue
            /\ AlertAndReturn(NoResultsAlert)
       ELSE Save(ExportFileName(now, ".json"), "application/json",
                 stringify(ReportValue(currentResults[1]), 0))

\* exportCSV(), called as exportJSON() is
ExportCSV ==
    /\ alertMessage = None
    /\ IF currentResults = None \/ ~HasResults(currentResults[1])
       THEN /\ invoiceNumbersValue' = invoiceNumbersValue
            /\ AlertAndReturn(NoResultsAlert)
       ELSE IF currentResults[1].results.type # "array"
       THEN \* results.forEach is not a function: a TypeError no handler
            \* catches, nothing is saved
            UNCHANGED vars
       ELSE Save(ExportFileName(now, ".csv"), "text/csv",
                 csvContent(currentResults[1].results.items))

Next ==
    \/ Tick
    \/ \E url \in ApiUrlInputs : TypeApiUrl(url)
    \/ DismissAlert
    \/ \E text \in PageTexts : CheckInvoices(text)
    \/ BatchTimeout
    \/ BatchNetworkError
    \/ \E status \in Statuses : FetchResolves(status)
    \/ \E errorText \in ErrorBodies : ErrorTextArrives(errorText)
    \/ JsonRejects
    \/ \E data \in Payloads : JsonArrives(data)

Spec == Init /\ [][Next]_vars

\* The browser fires an armed timer
FairSpec == Spec /\ WF_vars(BatchTimeout)

\* The batch page with the bodies and exports of the report
ReportNext ==
    \/ Tick
    \/ DismissAlert
    \/ \E text \in ReportTexts : CheckInvoices(text)
    \/ BatchTimeout
    \/ FetchResolves(200)
    \/ \E data \in ReportPayloads : JsonArrives(data)
    \/ ExportJSON
    \/ ExportCSV

ReportSpec == Init /\ [][ReportNext]_vars

-----------------------------------------------------------------------------
(* The batch page: the connection test *)

PRODUCTION_API_URL ==
    <<"https://kra-invoice-checker-production.up.railway.app", DetailsPath>>

\* Most connection tests started on one page
MaxProbes == 2

\* Statuses the /docs path may answer with
ProbeStatuses == {200, 404}

TestingText == <<"Testing API connection...">>
ConnectedText == <<"Connected to API successfully">>
ConnectionFailedText(message) == <<"Connection failed: ">> \o message

\* `API endpoint exists but returned status ${response.status}`
ProbeStatusText(status) ==
    <<"API endpoint exists but returned status ", StatusText(status)>>

\* apiUrl.split('/invoices/details')[0]
BaseUrl(url) ==
    LET at == {i \in 1..Len(url) : url[i] = DetailsPath}
    IN  IF at = {} THEN url
        ELSE SubSeq(url, 1, (CHOOSE i \in at : \A j \in at : i <= j) - 1)

\* `${baseUrl}/docs`
TestUrl(url) == BaseUrl(url) \o <<"/docs">>

\* What one test by itself leaves on the page: the indicator and the text
Health(reachable, detail) == [reachable |-> reachable, detail |-> detail]

\* Everything of the page but the API URL field and the connection test
probeFrame ==
    <<invoiceNumbersValue, parseVars, exportVars, checkerVars, singleVars,
      currentResults, runVars, buttonVars, errorVars, resultVars, alertMessage, now>>

\* testConnection() with the check button taken over for the test
testConnection_DisablesCheck(value) ==
    /\ Len(probes) < MaxProbes
    /\ connected' = FALSE
    /\ connectionStatus' = TestingText
    /\ probes' = Append(probes, [url |-> TestUrl(Trim(value)), outcome |-> None])
    /\ checkButtonDisabled' = TRUE
    /\ UNCHANGED <<invoiceNumbersValue, parseVars, exportVars, checkerVars, singleVars,
                   currentResults, runVars, spinnerDisplay, errorVars, resultVars,
                   alertMessage, now>>

\* testConnection() up to its await: value is the API URL field
testConnection(value) ==
    /\ Len(probes) < MaxProbes
    /\ connected' = FALSE
    /\ connectionStatus' = TestingText
    /\ probes' = Append(probes, [url |-> TestUrl(Trim(value)), outcome |-> None])
    /\ UNCHANGED probeFrame

\* document.addEventListener('DOMContentLoaded', ...)
DOMContentLoaded ==
    /\ readyState = "interactive"
    /\ readyState' = "complete"
    /\ testConnection(apiUrlValue)
    /\ UNCHANGED apiUrlValue

\* The Use Production API button
UseProductionAPI ==
    /\ alertMessage = None
    /\ apiUrlValue' = PRODUCTION_API_URL
    /\ testConnection(PRODUCTION_API_URL)
    /\ UNCHANGED readyState

\* The Use Local API button
UseLocalAPI ==
    /\ alertMessage = None
    /\ apiUrlValue' = LOCAL_API_URL
    /\ testConnection(LOCAL_API_URL)
    /\ UNCHANGED readyState

\* The Test Connection button
TestConnection ==
    /\ alertMessage = None
    /\ testConnection(apiUrlValue)
    /\ UNCHANGED <<apiUrlValue, readyState>>

\* The test i has not been answered
Pending(i) == i \in DOMAIN probes /\ probes[i].outcome = None

\* The end of test i: what it writes to the page
Completes(i, health) ==
    /\ probes' = [probes EXCEPT ![i].outcome = Some(health)]
    /\ connectionStatus' = health.detail
    /\ UNCHANGED <<apiUrlValue, readyState, probeFrame>>

\* fetch(testUrl) of test i resolves: if (response.ok) ... else ...
ProbeResolves(i, status) ==
    /\ alertMessage = None
    /\ Pending(i)
    /\ IF ResponseOk(status)
       THEN /\ connected' = TRUE
            /\ Completes(i, Health(TRUE, ConnectedText))
       ELSE /\ connected' = connected
            /\ Completes(i, Health(FALSE, ProbeStatusText(status)))

\* catch (error) of test i
ProbeCatch(i, message) ==
    /\ alertMessage = None
    /\ connected' = connected
    /\ Completes(i, Health(FALSE, ConnectionFailedText(message)))

\* The connection of test i fails
ProbeFails(i) ==
    /\ Pending(i)
    /\ ProbeCatch(i, FetchFailedMessage)

\* The 5 s timer of test i never arms
ProbeTimeout_Unarmed(i) ==
    /\ FALSE
    /\ UNCHANGED vars

\* AbortSignal.timeout(5000) of test i fires
ProbeTimeout(i) ==
    /\ Pending(i)
    /\ ProbeCatch(i, TimeoutMessage)

\* The body the remote service answers the runs next to the tests with
AnsweredPayloads ==
    { ObjectPayload([results |-> JArray(<<SuccessEntry("a"), ErrorEntry("b")>>)]) }

\* The connection tests, next to runs of the batch page
ProbeNext ==
    \/ DOMContentLoaded
    \/ UseProductionAPI
    \/ UseLocalAPI
    \/ TestConnection
    \/ \E i \in 1..MaxProbes, status \in ProbeStatuses : ProbeResolves(i, status)
    \/ \E i \in 1..MaxProbes : ProbeFails(i)
    \/ \E i \in 1..MaxProbes : ProbeTimeout(i)
    \/ \E text \in ReportTexts : CheckInvoices(text)
    \/ FetchResolves(200)
    \/ \E data \in AnsweredPayloads : JsonArrives(data)

ProbeSpec == Init /\ [][ProbeNext]_vars

\* Each test's timer fires unless the test was answered before
FairProbeSpec == ProbeSpec /\ \A i \in 1..MaxProbes : WF_vars(ProbeTimeout(i))

\* The bodies answered to the runs next to exports and tests
PagePayloads ==
    AnsweredPayloads \cup {ObjectPayload([results |-> JArray(<<QuotedEntry("a")>>)])}

\* The whole batch page: runs, exports and connection tests in any order
PageNext ==
    \/ DismissAlert
    \/ \E text \in ReportTexts : CheckInvoices(text)
    \/ BatchTimeout
    \/ FetchResolves(200)
    \/ \E data \in PagePayloads : JsonArrives(data)
    \/ ExportJSON
    \/ ExportCSV
    \/ DOMContentLoaded
    \/ TestConnection
    \/ \E i \in 1..MaxProbes, status \in ProbeStatuses : ProbeResolves(i, status)
    \/ \E i \in 1..MaxProbes : ProbeTimeout(i)

PageSpec == Init /\ [][PageNext]_vars

-----------------------------------------------------------------------------
(* The single-invoice checkers: the library function (src/unnamed/part_000),
   the command-line script and the proxy route (src/check_invoice.js), and
   the client of the proxy (src/invoice-client.js), each called once with a
   non-empty invoice number *)

\* The checkers whose fetch carries signal: AbortSignal.timeout(30000)
HasTimeout(c) == c = "library"

\* Statuses and bodies the checked service may answer with
CheckerStatuses == {200, 500}
CheckerPayloads ==
    { [results |-> JArray(<<>>)],
      [results |-> JArray(<<SuccessEntry("a")>>)] }

\* `API error (${response.status}): ${errorText}`
ApiErrorMessage(c, status, errorText) ==
    <<IF c = "proxyRoute" THEN "KRA API error (" ELSE "API error (",
      StatusText(status), "): ", errorText>>

NoResultsMessage == <<"No results returned from API">>

\* What a checker ends with: a value it returns or responds with, or an
\* error it throws, returns or responds with
Returned(value) == [failed |-> FALSE, value |-> value, message |-> <<>>]
Failed(message) == [failed |-> TRUE, value |-> EmptyObject, message |-> message]

\* Everything but the checkers
checkerFrame ==
    <<invoiceNumbersValue, parseVars, apiUrlValue, currentResults, runVars, buttonVars,
      errorVars, resultVars, alertMessage, now, exportVars, probeVars, singleVars>>

\* Checker c moves to position pc
Goes(c, pc_, status) ==
    /\ checkers' = [checkers EXCEPT ![c].pc = pc_, ![c].status = status]
    /\ UNCHANGED checkerFrame

\* Checker c ends
Ends(c, outcome) ==
    /\ checkers' = [checkers EXCEPT ![c].pc = "ended", ![c].outcome = Some(outcome)]
    /\ UNCHANGED checkerFrame

\* Checker c awaits its fetch or the body of its response
Waiting(c) == checkers[c].pc \in {"fetch", "text", "json"}

\* checkInvoice(invoiceNumber) up to await fetch(...)
Call(c) ==
    /\ checkers[c].pc = "idle"
    /\ Goes(c, "fetch", 0)

\* fetch() resolves: if (!response.ok) await response.text() else await response.json()
CheckerResolves(c, status) ==
    /\ checkers[c].pc = "fetch"
    /\ Goes(c, IF ResponseOk(status) THEN "json" ELSE "text", status)

\* response.text() resolves: throw new Error(`API error ...`), caught
CheckerErrorText(c, errorText) ==
    /\ checkers[c].pc = "text"
    /\ Ends(c, Failed(ApiErrorMessage(c, checkers[c].status, errorText)))

\* response.json() resolves with data
CheckerJson(c, data) ==
    /\ checkers[c].pc = "json"
    /\ LET results == data.results.items
       IN  IF c \in {"library", "commandLine"}
           THEN IF Len(results) > 0 THEN Ends(c, Returned(results[1]))
                ELSE Ends(c, Failed(NoResultsMessage))
           ELSE IF c = "proxyRoute"
           THEN Ends(c, Returned([status |-> <<"success">>,
                                  data |-> IF Len(results) > 0 THEN results[1]
                                           ELSE EmptyObject]))
           ELSE Ends(c, Returned(data))

\* The connection fails while the fetch or a body is awaited
CheckerNetworkError(c) ==
    /\ Waiting(c)
    /\ Ends(c, Failed(FetchFailedMessage))

\* AbortSignal.timeout(30000) fires while the fetch or a body is awaited
CheckerTimeout(c) ==
    /\ HasTimeout(c)
    /\ Waiting(c)
    /\ Ends(c, Failed(TimeoutMessage))

CheckerNext ==
    \E c \in CheckerNames :
        \/ Call(c)
        \/ \E status \in CheckerStatuses : CheckerResolves(c, status)
        \/ CheckerErrorText(c, "Internal Server Error")
        \/ \E data \in CheckerPayloads : CheckerJson(c, data)
        \/ CheckerNetworkError(c)
        \/ CheckerTimeout(c)

CheckerSpec == Init /\ [][CheckerNext]_vars

\* The timers that exist fire unless the checker ended before
FairCheckerSpec == CheckerSpec /\ \A c \in CheckerNames : WF_vars(CheckerTimeout(c))

-----------------------------------------------------------------------------
(* The single-invoice page (src/invoice-checker.html) *)

\* Most requests submitted on one page
MaxSubmits == 2

\* What the user may have typed into the invoice number field
InvoiceInputs == { <<>>, <<"a">>, <<SP, "b">> }

EnterNumberText == <<"Please enter an invoice number">>
NoInvoiceDataText == <<"No invoice data returned">>
ServerErrorText(status) == <<"Server error (", StatusText(status), ")">>

\* Bodies the local API answers a 2xx with for the invoice number asked
FoundBody(number) ==
    [status |-> <<"success">>,
     data |-> Some([invoice_number |-> number, status |-> <<"success">>,
                    data |-> [k \in {"Control Unit Invoice Number", "Supplier Name"} |->
                                 IF k = "Supplier Name" THEN <<"ACME LTD">> ELSE number]])]
NotFoundBody(number) ==
    [status |-> <<"success">>,
     data |-> Some([invoice_number |-> number, status |-> <<"error">>,
                    error |-> <<"Invoice not found">>])]
NoDataBody == [status |-> <<"success">>, data |-> None]
BodyKinds == {"found", "notFound", "noData"}
InvoiceBody(kind, number) ==
    CASE kind = "found" -> FoundBody(number)
      [] kind = "notFound" -> NotFoundBody(number)
      [] kind = "noData" -> NoDataBody
InvoiceBodies(number) == {InvoiceBody(kind, number) : kind \in BodyKinds}

\* The fields displayInvoiceDetails shows
detailFields ==
    <<"Control Unit Invoice Number", "Trader System Invoice No", "Invoice Date",
      "Total Taxable Amount", "Total Tax Amount", "Total Invoice Amount", "Supplier Name">>

\* displayInvoiceDetails(invoice): the rows written to #resultContent
displayInvoiceDetails(invoice) ==
    IF invoice.status # <<"success">>
    THEN << <<"Status:", <<"ERROR">> >>,
            <<"Error:", IF Has(invoice, "error") /\ invoice.error # <<>>
                        THEN invoice.error ELSE <<"Unknown error">> >> >>
    ELSE << <<"Status:", <<"SUCCESS">> >> >>
         \o (IF Has(invoice, "data")
             THEN [k \in 1..Len(detailFields) |->
                      <<detailFields[k],
                        IF Has(invoice.data, detailFields[k]) /\ invoice.data[detailFields[k]] # <<>>
                        THEN invoice.data[detailFields[k]] ELSE <<"N/A">> >>]
             ELSE <<>>)

\* Everything but the single-invoice page
singleFrame ==
    <<invoiceNumbersValue, parseVars, apiUrlValue, currentResults, runVars, buttonVars,
      errorVars, resultVars, alertMessage, now, exportVars, probeVars, checkerVars>>

\* checkInvoice() up to its await: value is the invoice number field
checkInvoice(value) ==
    /\ Len(invoicePage.requests) < MaxSubmits
    /\ invoicePage' =
           IF Trim(value) = <<>>
           THEN [invoicePage EXCEPT !.invoiceNumberValue = value,
                                    !.resultDisplay = "none",
                                    !.errorText = EnterNumberText,
                                    !.errorDisplay = "block"]
           ELSE [invoicePage EXCEPT !.invoiceNumberValue = value,
                                    !.errorDisplay = "none",
                                    !.resultDisplay = "none",
                                    !.loadingDisplay = "block",
                                    !.checkButtonDisabled = TRUE,
                                    !.requests = Append(@, [invoiceNumber |-> Trim(value),
                                                            settled |-> FALSE])]
    /\ UNCHANGED singleFrame

\* The Check Invoice button, which a request in flight disables
ClickCheckInvoice(value) ==
    /\ ~invoicePage.checkButtonDisabled
    /\ checkInvoice(value)

\* keyup with event.key === 'Enter' in the invoice number field
KeyupEnter(value) ==
    /\ value \in InvoiceInputs
    /\ checkInvoice(value)

\* finally { ... } of request i, on the page as the try or catch left it
InvoiceFinally(i, page) ==
    /\ invoicePage' = [page EXCEPT !.requests[i].settled = TRUE,
                                   !.loadingDisplay = "none",
                                   !.checkButtonDisabled = FALSE]
    /\ UNCHANGED singleFrame

\* catch (err) { ... } finally { ... } of request i
InvoiceCatch(i, message) ==
    InvoiceFinally(i, [invoicePage EXCEPT !.errorText = message,
                                          !.errorDisplay = "block"])

\* Request i awaits its answer
InFlight(i) == i \in DOMAIN invoicePage.requests /\ ~invoicePage.requests[i].settled

\* The answer to request i is 2xx with a body of the kind given
InvoiceAnswered(i, kind) ==
    /\ InFlight(i)
    /\ LET data == InvoiceBody(kind, invoicePage.requests[i].invoiceNumber)
       IN  IF data.status = <<"success">> /\ data.data # None
           THEN InvoiceFinally(i, [invoicePage EXCEPT
                                       !.resultContent = displayInvoiceDetails(data.data[1]),
                                       !.resultDisplay = "block"])
           ELSE InvoiceCatch(i, NoInvoiceDataText)

\* The answer to request i is not 2xx and has no JSON message
InvoiceServerError(i, status) ==
    /\ InFlight(i)
    /\ InvoiceCatch(i, ServerErrorText(status))

\* The fetch of request i rejects
InvoiceNetworkError(i) ==
    /\ InFlight(i)
    /\ InvoiceCatch(i, FetchFailedMessage)

SingleNext ==
    \/ \E value \in InvoiceInputs : ClickCheckInvoice(value)
    \/ \E value \in InvoiceInputs : KeyupEnter(value)
    \/ \E i \in 1..MaxSubmits, kind \in BodyKinds : InvoiceAnswered(i, kind)
    \/ \E i \in 1..MaxSubmits : InvoiceServerError(i, 500)
    \/ \E i \in 1..MaxSubmits : InvoiceNetworkError(i)

SingleSpec == Init /\ [][SingleNext]_vars

\* The run state a user observes
RunState ==
    IF checkButtonDisabled THEN "Submitting"
    ELSE IF apiErrorDisplay = "block" THEN "Failed"
    ELSE IF resultsDisplay = "block" THEN "Succeeded"
    ELSE "Idle"

-----------------------------------------------------------------------------
(* The parser applied to enumerated inputs *)

ParseInit ==
    /\ invoiceNumbersValue \in Strings \cup {ExampleText}
    /\ parsedMixed = None
    /\ parsedNewlines = None
    /\ parsedCommas = None
    /\ PageLoaded
    /\ CheckersIdle
    /\ InvoicePageLoaded

ParseMixed ==
    /\ parsedMixed = None
    /\ parsedMixed' = Some(parseInvoiceNumbers(invoiceNumbersValue))
    /\ UNCHANGED <<invoiceNumbersValue, parsedNewlines, parsedCommas, pageVars>>

ParseNewlines ==
    /\ parsedNewlines = None
    /\ parsedNewlines' =
           Some(parseInvoiceNumbers(ReplaceChar(invoiceNumbersValue, COMMA, NL)))
    /\ UNCHANGED <<invoiceNumbersValue, parsedMixed, parsedCommas, pageVars>>

ParseCommas ==
    /\ parsedCommas = None
    /\ parsedCommas' =
           Some(parseInvoiceNumbers(ReplaceChar(invoiceNumbersValue, NL, COMMA)))
    /\ UNCHANGED <<invoiceNumbersValue, parsedMixed, parsedNewlines, pageVars>>

ParseNext == ParseMixed \/ ParseNewlines \/ ParseCommas

ParseSpec == ParseInit /\ [][ParseNext]_vars

-----------------------------------------------------------------------------
(* Vocabulary of the properties *)

Min(S) == CHOOSE x \in S : \A y \in S : x <= y
Max(S) == CHOOSE x \in S : \A y \in S : x >= y

\* s without its leading and trailing white space, by positions
Strip(s) ==
    LET solid == {i \in 1..Len(s) : s[i] \notin WhiteSpace}
    IN  IF solid = {} THEN <<>> ELSE SubSeq(s, Min(solid), Max(solid))

Flush(acc, cur) == IF Strip(cur) = <<>> THEN acc ELSE Append(acc, Strip(cur))

\* One left-to-right pass: a token ends at every newline and every comma
RECURSIVE Scan(_, _, _)
Scan(s, cur, acc) ==
    IF s = <<>> THEN Flush(acc, cur)
    ELSE IF Head(s) \in {NL, COMMA} THEN Scan(Tail(s), <<>>, Flush(acc, cur))
    ELSE Scan(Tail(s), Append(cur, Head(s)), acc)

\* The non-empty trimmed tokens of a text, in order
Tokens(s) == Scan(s, <<>>, <<>>)

Count(x, xs) == Cardinality({i \in 1..Len(xs) : xs[i] = x})
Elements(xs) == {xs[i] : i \in 1..Len(xs)}
Multiset(xs) == [x \in Elements(xs) |-> Count(x, xs)]

\* Position of the first occurrence of x in xs
FirstAt(x, xs) == Min({i \in 1..Len(xs) : xs[i] = x})

\* xs lists every element once, in the order of the first occurrences in ys
FirstOccurrenceOrder(xs, ys) ==
    /\ \A i, j \in 1..Len(xs) : i < j => xs[i] # xs[j]
    /\ Elements(xs) = Elements(ys)
    /\ \A i, j \in 1..Len(xs) : i < j => FirstAt(xs[i], ys) < FirstAt(xs[j], ys)

-----------------------------------------------------------------------------
(* Properties of the identifier parser (specification ParseSpec) *)

\* C1: parseInvoiceNumbers returns exactly the in-order sequence of the
\* non-empty trimmed tokens of the text, split on newlines and on commas; the
\* documented example "a\nb,c\n\nd" gives ["a","b","c","d"].
C1_ParseIsTokens ==
    parsedMixed # None =>
        /\ parsedMixed[1] = Tokens(invoiceNumbersValue)
        /\ invoiceNumbersValue = ExampleText =>
               parsedMixed[1] = << <<"a">>, <<"b">>, <<"c">>, <<"d">> >>

C1_Witness ==
    /\ invoiceNumbersValue = ExampleText
    /\ parsedMixed = Some(<< <<"a">>, <<"b">>, <<"c">>, <<"d">> >>)

\* C2: whatever the text (blank lines, leading, trailing or consecutive
\* commas, pieces of white space only), the parsed list holds no empty string.
C2_NoEmptyElement ==
    \A out \in {parsedMixed, parsedNewlines, parsedCommas} :
        out # None => \A i \in 1..Len(out[1]) : out[1][i] # <<>>

C2_Witness ==
    /\ invoiceNumbersValue = <<COMMA, SP, COMMA, "a">>
    /\ parsedMixed = Some(<< <<"a">> >>)

\* C3: the same pieces joined by newlines only, by commas only or by a mix of
\* both parse to the same multiset of identifiers.
C3_SeparatorIndependent ==
    (parsedMixed # None /\ parsedNewlines # None /\ parsedCommas # None) =>
        /\ Multiset(parsedNewlines[1]) = Multiset(parsedMixed[1])
        /\ Multiset(parsedCommas[1]) = Multiset(parsedMixed[1])

C3_Witness ==
    /\ invoiceNumbersValue = <<"a", NL, "b", COMMA, "a">>
    /\ parsedMixed = Some(<< <<"a">>, <<"b">>, <<"a">> >>)
    /\ parsedNewlines = parsedMixed
    /\ parsedCommas = parsedMixed

\* C5 as stated: the parsed list is deduplicated, no identifier occurring
\* twice, the first-occurrence order preserved.
C5_Deduplicated ==
    parsedMixed # None =>
        FirstOccurrenceOrder(parsedMixed[1], Tokens(invoiceNumbersValue))

\* C5 amended: the parsed list is order-preserving but not deduplicated. Every
\* identifier occurs as often as among the tokens of the text, and the first
\* occurrences of the distinct identifiers come in the tokens' order.
C5_OrderPreservedDuplicatesKept ==
    parsedMixed # None =>
        LET out == parsedMixed[1]
            toks == Tokens(invoiceNumbersValue)
        IN  /\ \A t \in Elements(toks) \cup Elements(out) :
                   Count(t, out) = Count(t, toks)
            /\ \A t, u \in Elements(out) :
                   FirstAt(t, out) < FirstAt(u, out) <=>
                       FirstAt(t, toks) < FirstAt(u, toks)

C5_Witness ==
    /\ invoiceNumbersValue = <<"b", COMMA, "a", NL, "b">>
    /\ parsedMixed = Some(<< <<"b">>, <<"a">>, <<"b">> >>)

-----------------------------------------------------------------------------
(* Properties of the batch page (specifications Spec and FairSpec) *)

\* C4: nothing is deduplicated. While a run is in flight, an identifier that
\* occurs k times among the tokens of the textarea occurs k times in the
\* parsed list and k times in the invoice_numbers array of the request sent.
C4_DuplicatesKept ==
    pc # "idle" =>
        LET toks == Tokens(invoiceNumbersValue)
        IN  /\ Len(requests) >= 1
            /\ \A t \in Elements(toks) \cup Elements(invoiceNumbers) :
                   /\ Count(t, invoiceNumbers) = Count(t, toks)
                   /\ \A i \in 1..Len(requests) :
                          Count(t, requests[i].body.invoice_numbers) = Count(t, toks)

C4_Witness ==
    /\ pc = "fetch"
    /\ invoiceNumbersValue = <<"a", COMMA, "a">>
    /\ requests[1].body.invoice_numbers = << <<"a">>, <<"a">> >>

\* C6: a click whose text parses to no identifier raises the input alert
\* and stops. No request is issued, the button stays enabled (the run never
\* enters Submitting) and the stored report is left as it was.
C6_EmptyInputRejected ==
    [][\A text \in PageTexts :
          (/\ invoiceNumbersValue' = text
           /\ parseInvoiceNumbers(text) = <<>>
           /\ CheckInvoices(text)) =>
              /\ alertMessage' = Some(EmptyInputAlert)
              /\ requests = <<>> /\ requests' = <<>>
              /\ pc' = "idle"
              /\ ~checkButtonDisabled'
              /\ spinnerDisplay' = "none"
              /\ RunState' = RunState
              /\ currentResults' = currentResults]_vars

C6_Witness ==
    /\ alertMessage = Some(EmptyInputAlert)
    /\ invoiceNumbersValue = <<SP, COMMA>>
    /\ currentResults # None
    /\ requests = <<>>
    /\ ~checkButtonDisabled

\* C7: a run in flight has issued exactly one request, a POST to the run's
\* URL whose invoice_numbers array is the whole parsed list in parsed order,
\* whatever the size of the batch; outside a run no request is outstanding.
C7_OneRequestPerRun ==
    /\ pc # "idle" =>
           /\ invoiceNumbers = parseInvoiceNumbers(invoiceNumbersValue)
           /\ requests = << [method |-> "POST", url |-> apiUrl,
                             body |-> [invoice_numbers |-> invoiceNumbers]] >>
    /\ pc = "idle" => requests = <<>>

C7_Witness ==
    /\ pc = "json"
    /\ Len(requests) = 1
    /\ requests[1].body.invoice_numbers = << <<"b">>, <<"a">> >>

\* C8: every run that enters Submitting leaves it. If the remote never
\* answers, the wait ceiling elapses: the timer's step ends the run Failed,
\* shows the timeout error, re-enables the button and hides the spinner.
C8_SubmittingEnds ==
    /\ (RunState = "Submitting") ~> (RunState # "Submitting")
    /\ [][BatchTimeout =>
             /\ RunState = "Submitting"
             /\ RunState' = "Failed"
             /\ apiErrorText' = <<"Error: ">> \o TimeoutMessage
             /\ apiErrorDisplay' = "block"
             /\ ~checkButtonDisabled'
             /\ spinnerDisplay' = "none"
             /\ alertMessage' = None]_vars

C8_Witness ==
    /\ RunState = "Failed"
    /\ apiErrorText = <<"Error: ">> \o TimeoutMessage
    /\ pc = "idle"
    /\ ~checkButtonDisabled
    /\ spinnerDisplay = "none"

\* C9: a non-success status sends the run to read the body text; when the
\* text arrives the run ends Failed with an error carrying the status code
\* and the body text verbatim. From the status on, the run issues no further
\* request and stores no report.
C9_HttpErrorSurfacedNoRetry ==
    [][/\ (pc = "fetch" /\ responseStatus' # 0 /\ ~ResponseOk(responseStatus')) =>
              (pc' = "text" /\ requests' = requests)
       /\ pc = "text" =>
              /\ ~ResponseOk(responseStatus)
              /\ Len(requests) = 1
              /\ requests' \in {requests, <<>>}
              /\ pc' \in {"text", "idle"}
              /\ currentResults' = currentResults
              /\ pc' = "idle" => RunState' = "Failed"
       /\ \A errorText \in ErrorBodies :
              ErrorTextArrives(errorText) =>
                  /\ apiErrorText' = <<"Error: ", "API returned status ",
                                       StatusText(responseStatus), ": ", errorText>>
                  /\ apiErrorDisplay' = "block"]_vars

C9_Witness ==
    /\ pc = "idle"
    /\ RunState = "Failed"
    /\ apiErrorText = <<"Error: ", "API returned status ", "500", ": ",
                        "Internal Server Error">>
    /\ requests = <<>>

\* C10: a parsed response with no `results` key, or whose `results` is not a
\* sequence, ends the run Failed with the invalid-format error and stores no
\* report: currentResults is assigned only by a run that ends Succeeded.
C10_InvalidShapeStoresNothing ==
    [][\A data \in Payloads :
          (JsonArrives(data) /\ ~HasResultsArray(data.fields)) =>
              /\ RunState' = "Failed"
              /\ ~data.isNull => apiErrorText' = InvalidFormatText
              /\ currentResults' = currentResults]_vars

-----------------------------------------------------------------------------
(* Vocabulary of the report properties *)

\* A body that passes the validation of displayResults
Accepted(data) == HasResultsArray(data.fields)

\* An element that carries a status the page knows
Recognized(result) ==
    /\ Has(result, "status")
    /\ result.status \in {<<"success">>, <<"error">>}

\* The body of the example: two success entries and one error entry
ExamplePayload ==
    ObjectPayload([results |->
        JArray(<<SuccessEntry("a"), ErrorEntry("b"), SuccessEntry("c")>>)])

\* The identifier a displayed item or a returned entry shows
Shown(items) == [i \in 1..Len(items) |-> Interpolate(items[i], "invoice_number")]

-----------------------------------------------------------------------------
(* Claims on the report *)

\* C11: every entry the remote service returned is surfaced in the displayed
\* results, so that as many items are displayed as entries were returned, and
\* an entry whose status is missing or unrecognized is shown as an error entry
\* that carries a (generic) message.
C11_EveryEntrySurfaced ==
    [][\A data \in ReportPayloads :
          (JsonArrives(data) /\ Accepted(data)) =>
              LET results == data.fields.results.items
              IN  /\ Len(invoiceList') = Len(results)
                  /\ \A i \in 1..Len(results) :
                         ~Recognized(results[i]) =>
                             /\ invoiceList'[i].badge = "ERROR"
                             /\ invoiceList'[i].details # <<>>]_vars

\* C12: for every accepted body the summary shows as total the number of
\* entries, as success count the number of entries whose status is success,
\* and as error count the total less the success count; two success entries
\* and one error entry give 3, 2 and 1.
C12_SummaryCounts ==
    [][\A data \in ReportPayloads :
          (JsonArrives(data) /\ Accepted(data)) =>
              LET results == data.fields.results.items
                  successes == {i \in 1..Len(results) :
                                   /\ Has(results[i], "status")
                                   /\ results[i].status = <<"success">>}
              IN  /\ resultsDisplay' = "block"
                  /\ totalCount' = Len(results)
                  /\ successCount' = Cardinality(successes)
                  /\ errorCount' = totalCount' - successCount'
                  /\ data = ExamplePayload =>
                         /\ totalCount' = 3
                         /\ successCount' = 2
                         /\ errorCount' = 1]_vars

C12_Witness ==
    /\ RunState = "Succeeded"
    /\ currentResults # None
    /\ currentResults[1].results = ExamplePayload.fields.results
    /\ totalCount = 3
    /\ successCount = 2
    /\ errorCount = 1

\* C13: an accepted body is not reconciled with the requested list: whether
\* it holds fewer, as many or more entries than identifiers were requested,
\* the run ends Succeeded, the stored report's results are the returned
\* entries in the returned order, and so are the displayed items.
C13_LengthNotReconciled ==
    [][\A data \in ReportPayloads :
          (JsonArrives(data) /\ Accepted(data)) =>
              /\ RunState' = "Succeeded"
              /\ currentResults' # None
              /\ currentResults'[1].results.items = data.fields.results.items
              /\ Shown(invoiceList') = Shown(data.fields.results.items)]_vars

\* A report of three entries for two requested identifiers, exported earlier
\* when it held one entry for two
C13_Witness ==
    /\ RunState = "Succeeded"
    /\ Len(parseInvoiceNumbers(invoiceNumbersValue)) = 2
    /\ currentResults # None
    /\ Len(currentResults[1].invoices_requested) = 2
    /\ Len(currentResults[1].results.items) = 3
    /\ Len(invoiceList) = 3
    /\ download # None
    /\ download[1].content = csvContent(<<SuccessEntry("a")>>)

\* C15: the stored report's endpoint, requested-identifier list and timestamp
\* are the values the page recorded for the run, whatever keys the body of
\* the response holds.
C15_ClientFieldsKept ==
    [][\A data \in ReportPayloads :
          JsonArrives(data) =>
              /\ currentResults' # None
              /\ currentResults'[1].apiUrl = apiUrl
              /\ currentResults'[1].invoices_requested = invoiceNumbers
              /\ currentResults'[1].timestamp = toISOString(now)]_vars

-----------------------------------------------------------------------------
(* Vocabulary of the export properties *)

\* The character at a position, "" past the end
At(s, i) == IF i \in 1..Len(s) THEN s[i] ELSE ""

\* A JSON parser (RFC 8259) for strings, arrays and objects
Malformed == [type |-> "malformed"]
Stop(s) == [value |-> Malformed, next |-> Len(s) + 2]

RECURSIVE SkipSpace(_, _)
SkipSpace(s, i) == IF At(s, i) \in {SP, NL} THEN SkipSpace(s, i + 1) ELSE i

\* The characters of a string up to its closing quote, escapes undone
RECURSIVE ReadString(_, _, _)
ReadString(s, i, acc) ==
    IF i > Len(s) THEN [text |-> acc, next |-> Len(s) + 2]
    ELSE IF s[i] = QUOTE THEN [text |-> acc, next |-> i + 1]
    ELSE IF s[i] = BACKSLASH
    THEN ReadString(s, i + 2,
                    Append(acc, IF At(s, i + 1) = "n" THEN NL ELSE At(s, i + 1)))
    ELSE ReadString(s, i + 1, Append(acc, s[i]))

RECURSIVE ReadValue(_, _), ReadItems(_, _, _), ReadMembers(_, _, _, _)
ReadValue(s, from) ==
    LET i == SkipSpace(s, from)
        inside == SkipSpace(s, i + 1)
    IN  IF At(s, i) = QUOTE
        THEN LET string == ReadString(s, i + 1, <<>>)
             IN  [value |-> JsonString(string.text), next |-> string.next]
        ELSE IF At(s, i) = "["
        THEN IF At(s, inside) = "]"
             THEN [value |-> JsonArray(<<>>), next |-> inside + 1]
             ELSE ReadItems(s, inside, <<>>)
        ELSE IF At(s, i) = "{"
        THEN IF At(s, inside) = "}"
             THEN [value |-> JsonObject(<<>>, <<>>), next |-> inside + 1]
             ELSE ReadMembers(s, inside, <<>>, <<>>)
        ELSE Stop(s)
ReadItems(s, from, items) ==
    LET item == ReadValue(s, from)
        after == SkipSpace(s, item.next)
    IN  IF At(s, after) = COMMA
        THEN ReadItems(s, after + 1, Append(items, item.value))
        ELSE IF At(s, after) = "]"
        THEN [value |-> JsonArray(Append(items, item.value)), next |-> after + 1]
        ELSE Stop(s)
ReadMembers(s, from, keys, values) ==
    LET i == SkipSpace(s, from)
        key == ReadString(s, i + 1, <<>>)
        colon == SkipSpace(s, key.next)
        member == ReadValue(s, colon + 1)
        after == SkipSpace(s, member.next)
    IN  IF At(s, i) # QUOTE \/ At(s, colon) # ":" THEN Stop(s)
        ELSE IF At(s, after) = COMMA
        THEN ReadMembers(s, after + 1, Append(keys, key.text),
                         Append(values, member.value))
        ELSE IF At(s, after) = "}"
        THEN [value |-> JsonObject(Append(keys, key.text),
                                   Append(values, member.value)),
              next |-> after + 1]
        ELSE Stop(s)

\* JSON.parse
JsonParse(s) ==
    LET read == ReadValue(s, 1)
    IN  IF SkipSpace(s, read.next) = Len(s) + 1 THEN read.value ELSE Malformed

\* A parsed object has exactly the keys of obj
SameKeys(value, obj) ==
    /\ value.type = "object"
    /\ Len(value.keys) = Cardinality(DOMAIN obj)
    /\ {value.keys[i] : i \in 1..Len(value.keys)} = {<<k>> : k \in DOMAIN obj}

\* The member of a parsed object under a key
Member(value, key) ==
    value.values[CHOOSE i \in 1..Len(value.keys) : value.keys[i] = <<key>>]

IsText(value, text) == value = JsonString(text)

IsTexts(value, texts) ==
    /\ value.type = "array"
    /\ Len(value.items) = Len(texts)
    /\ \A i \in 1..Len(texts) : IsText(value.items[i], texts[i])

IsData(value, data) ==
    /\ SameKeys(value, data)
    /\ \A k \in DOMAIN data : IsText(Member(value, k), data[k])

IsEntry(value, entry) ==
    /\ SameKeys(value, entry)
    /\ \A k \in DOMAIN entry :
           IF k = "data" THEN IsData(Member(value, k), entry[k])
           ELSE IsText(Member(value, k), entry[k])

IsResults(value, results) ==
    IF results.type = "array"
    THEN /\ value.type = "array"
         /\ Len(value.items) = Len(results.items)
         /\ \A i \in 1..Len(results.items) : IsEntry(value.items[i], results.items[i])
    ELSE IsText(value, results.text)

\* A parsed value is the report: same timestamp, endpoint, requested list
\* and results, and nothing else
IsReport(value, report) ==
    /\ SameKeys(value, report)
    /\ IsText(Member(value, "timestamp"), report.timestamp)
    /\ IsText(Member(value, "apiUrl"), report.apiUrl)
    /\ IsTexts(Member(value, "invoices_requested"), report.invoices_requested)
    /\ Has(report, "results") => IsResults(Member(value, "results"), report.results)

\* The pieces of a text between the positions of a set, in order
CutAt(s, positions) ==
    LET Nth(k) == CHOOSE i \in positions :
                      Cardinality({j \in positions : j < i}) = k - 1
        count == Cardinality(positions)
    IN  [k \in 1..(count + 1) |->
            SubSeq(s,
                   IF k = 1 THEN 1 ELSE Nth(k - 1) + 1,
                   IF k = count + 1 THEN Len(s) ELSE Nth(k) - 1)]

\* The pieces of a text between the occurrences of a separator
Cut(s, sep) == CutAt(s, {i \in 1..Len(s) : s[i] = sep})

\* A CSV reader (RFC 4180): fields are separated by commas and records by
\* line breaks, but not by those inside a field enclosed in double quotes
\* (those with an odd number of double quotes before them); inside the
\* enclosing quotes two double quotes stand for one
Enclosed(s, i) == Cardinality({j \in 1..(i - 1) : s[j] = QUOTE}) % 2 = 1
Breaks(s, sep) == {i \in 1..Len(s) : s[i] = sep /\ ~Enclosed(s, i)}

RECURSIVE Undoubled(_)
Undoubled(s) ==
    IF s = <<>> THEN <<>>
    ELSE IF s[1] = QUOTE /\ At(s, 2) = QUOTE THEN <<QUOTE>> \o Undoubled(SubSeq(s, 3, Len(s)))
    ELSE <<s[1]>> \o Undoubled(Tail(s))

CsvField(piece) ==
    IF Len(piece) >= 2 /\ piece[1] = QUOTE /\ piece[Len(piece)] = QUOTE
    THEN Undoubled(SubSeq(piece, 2, Len(piece) - 1))
    ELSE piece

CsvRead(s) ==
    LET pieces == CutAt(s, Breaks(s, NL))
        lines == IF pieces[Len(pieces)] = <<>>
                 THEN SubSeq(pieces, 1, Len(pieces) - 1) ELSE pieces
    IN  [r \in 1..Len(lines) |->
            LET fields == CutAt(lines[r], Breaks(lines[r], COMMA))
            IN  [f \in 1..Len(fields) |-> CsvField(fields[f])]]

\* The ten columns of the tabular export, in their order
HeaderNames ==
    <<"Invoice Number", "Status", "Error", "Control Unit Invoice Number",
      "Trader System Invoice No", "Invoice Date", "Total Taxable Amount",
      "Total Tax Amount", "Total Invoice Amount", "Supplier Name">>

\* The value of an entry under a column: the identifier and the status print
\* as "undefined" when the entry has none, the others are empty
ColumnValue(entry, column) ==
    IF column = "Invoice Number"
    THEN (IF Has(entry, "invoice_number") THEN entry.invoice_number ELSE <<"undefined">>)
    ELSE IF column = "Status"
    THEN (IF Has(entry, "status") THEN entry.status ELSE <<"undefined">>)
    ELSE IF column = "Error"
    THEN (IF Has(entry, "error") THEN entry.error ELSE <<>>)
    ELSE IF Has(entry, "data") /\ Has(entry.data, column) THEN entry.data[column]
    ELSE <<>>

\* A cell without the double quotes around it
Unquoted(cell) ==
    IF Len(cell) >= 2 /\ cell[1] = QUOTE /\ cell[Len(cell)] = QUOTE
    THEN SubSeq(cell, 2, Len(cell) - 1)
    ELSE cell

\* A value without the apostrophe that marks it as text for a spreadsheet
Unmarked(value) == IF At(value, 1) = APOSTROPHE THEN Tail(value) ELSE value

\* The stored report has a sequence of results
HasReportResults ==
    /\ currentResults # None
    /\ HasResultsArray(currentResults[1])

\* No value of the stored results holds a double quote, a comma or a line break
PlainResults ==
    \A i \in 1..Len(currentResults[1].results.items) :
        \A k \in 1..Len(HeaderNames) :
            \A j \in DOMAIN ColumnValue(currentResults[1].results.items[i], HeaderNames[k]) :
                ColumnValue(currentResults[1].results.items[i], HeaderNames[k])[j]
                    \notin {QUOTE, COMMA, NL}

\* The instant inside a file name
TimestampPart(name) == SubSeq(name, 2, Len(name) - 1)

\* A text with every ':' and '.' turned into '-'
Dashed(text) ==
    [i \in 1..Len(text) |-> IF text[i] \in {":", "."} THEN "-" ELSE text[i]]

\* The stored report is one of a run that Succeeded, with the timestamp the
\* page wrote
CompletedReport ==
    /\ HasReportResults
    /\ \E t \in 0..MaxClock : currentResults[1].timestamp = toISOString(t)

\* No run has displayed results since the page was loaded
NoRunSucceeded == resultsDisplay = "none"

\* Nothing is stored, or what is stored was left by a run that ended Failed
\* on the shape of the body
NoCompletedReport == currentResults = None \/ ~HasResultsArray(currentResults[1])

-----------------------------------------------------------------------------
(* Claims on the exports *)

\* C14: the structured-form export round-trips: parsing the text of the
\* exported file gives back a report equal to the exported one, with the same
\* timestamp, endpoint, requested list and results.
C14_JsonRoundTrip ==
    [][(ExportJSON /\ currentResults # None) =>
          /\ download' # None
          /\ download'[1].type = "application/json"
          /\ \A content \in {download'[1].content} :
                 IsReport(JsonParse(content), currentResults[1])]_vars

\* The exported report holds a value with double quotes and a comma
C14_Witness ==
    /\ download # None
    /\ download[1].type = "application/json"
    /\ currentResults # None
    /\ HasResultsArray(currentResults[1])
    /\ currentResults[1].results.items = <<QuotedEntry("a")>>
    /\ Includes(download[1].content, BACKSLASH)
    /\ IsReport(JsonParse(download[1].content), currentResults[1])

\* C16: the tabular export begins with a header of ten columns in a fixed
\* order and has one row per result entry, each row holding the entry's ten
\* values in the order of the header (read here where no value holds a
\* separator, so that the cells of a row are what the commas separate).
C16_HeaderAndRows ==
    [][(ExportCSV /\ HasReportResults /\ PlainResults) =>
          /\ download' # None
          /\ download'[1].type = "text/csv"
          /\ \A content \in {download'[1].content} :
             LET results == currentResults[1].results.items
                 lines == Cut(content, NL)
                 header == Cut(lines[1], COMMA)
             IN  /\ header = KeyTexts(HeaderNames)
                 /\ Len(lines) = Len(results) + 2
                 /\ lines[Len(lines)] = <<>>
                 /\ \A i \in 1..Len(results) :
                        LET cells == Cut(lines[i + 1], COMMA)
                        IN  /\ Len(cells) = Len(header)
                            /\ \A k \in 1..Len(header) :
                                   Unmarked(Unquoted(cells[k]))
                                       = ColumnValue(results[i], header[k][1])]_vars

\* The exported table of the example: a header and three rows
C16_Witness ==
    /\ download # None
    /\ download[1].type = "text/csv"
    /\ HasReportResults
    /\ currentResults[1].results = ExamplePayload.fields.results
    /\ Len(Cut(download[1].content, NL)) = 5
    /\ Cut(Cut(download[1].content, NL)[3], COMMA)[2] = <<QUOTE, "error", QUOTE>>
    /\ Cut(Cut(download[1].content, NL)[3], COMMA)[3]
           = <<QUOTE, "Invoice not found", QUOTE>>

\* C17: in the tabular export every one of the ten values of a row is
\* wrapped in double quotes, the "Control Unit Invoice Number" column
\* included.
C17_EveryValueQuoted ==
    [][(ExportCSV /\ HasReportResults /\ PlainResults) =>
          /\ download' # None
          /\ \A content \in {download'[1].content} :
             LET lines == Cut(content, NL)
             IN  \A i \in 2..(Len(lines) - 1) :
                     LET cells == Cut(lines[i], COMMA)
                     IN  /\ Len(cells) = 10
                         /\ \A k \in 1..10 :
                                /\ Len(cells[k]) >= 2
                                /\ cells[k][1] = QUOTE
                                /\ cells[k][Len(cells[k])] = QUOTE]_vars

\* C18: a value that holds a double quote, a comma or a line break is
\* written so that a standard CSV parser reads its row back as exactly ten
\* columns, each with the original value.
C18_SpecialCharactersReadBack ==
    [][(ExportCSV /\ HasReportResults) =>
          /\ download' # None
          /\ \A content \in {download'[1].content} :
             LET results == currentResults[1].results.items
                 records == CsvRead(content)
             IN  /\ Len(records) = Len(results) + 1
                 /\ \A i \in 1..Len(results) :
                        /\ Len(records[i + 1]) = 10
                        /\ \A k \in 1..10 :
                               Unmarked(records[i + 1][k])
                                   = ColumnValue(results[i], HeaderNames[k])]_vars

\* C19: an export asked for while no completed report exists fails with the
\* export error and produces no file, in the initial state and after any
\* runs none of which Succeeded.
C19_NoReportNoFile ==
    [][((ExportJSON \/ ExportCSV) /\ (NoRunSucceeded \/ NoCompletedReport)) =>
          /\ alertMessage' = Some(NoResultsAlert)
          /\ download' = download
          /\ NoRunSucceeded => download' = None]_vars

\* C20: the name of an exported file is a function of the run's timestamp:
\* it carries the stored report's timestamp, so that exports of the same
\* report at different moments have the same name and its JSON and CSV files
\* share the timestamp part.
C20_NamedByRunTimestamp ==
    [][((ExportJSON \/ ExportCSV) /\ download' # download /\ CompletedReport) =>
          TimestampPart(download'[1].name) = Dashed(currentResults[1].timestamp)]_vars

\* C20, amended: the name of an exported file is a function of the instant
\* of the export: it carries that instant as toISOString() prints it with
\* every ':' and '.' turned into '-', so that exports at different instants
\* have different names and the JSON and CSV files exported at one instant
\* share the timestamp part.
C20_NamedByExportInstant ==
    [][((ExportJSON \/ ExportCSV) /\ download' # download) =>
          /\ download'[1].name =
                 <<"kra_invoice_results_">> \o Dashed(toISOString(now))
                     \o <<IF download'[1].type = "text/csv" THEN ".csv" ELSE ".json">>
          /\ \A j \in 1..Len(TimestampPart(download'[1].name)) :
                 TimestampPart(download'[1].name)[j] \notin {":", "."}
          /\ \A t \in 0..MaxClock :
                 t # now => Dashed(toISOString(t)) # TimestampPart(download'[1].name)]_vars

\* The report of a run at instant 0, exported at a later instant
C20_Witness ==
    /\ download # None
    /\ CompletedReport
    /\ currentResults[1].timestamp = toISOString(0)
    /\ download[1].content = stringify(ReportValue(currentResults[1]), 0)
    /\ now > 0
    /\ TimestampPart(download[1].name) = Dashed(toISOString(now))
    /\ TimestampPart(download[1].name) # Dashed(currentResults[1].timestamp)

-----------------------------------------------------------------------------
(* Claims on the runs of the batch page *)

\* C27: at most one batch request is in flight at any time, and the Check
\* button is disabled in exactly the states where a request is in flight, so
\* that no run starts before the run before it has ended.
C27_OneRunInFlight ==
    /\ Len(requests) <= 1
    /\ checkButtonDisabled <=> requests # <<>>
    /\ checkButtonDisabled <=> pc # "idle"

\* A second run in flight, after a first one has displayed its results
C27_Witness ==
    /\ resultsDisplay = "block"
    /\ checkButtonDisabled
    /\ pc = "text"
    /\ Len(requests) = 1

\* C30: whenever the results panel is visible and no run is in flight, the
\* displayed total, success and error counts and the displayed list are
\* those of the stored report, that is of what an export would write.
C30_DisplayIsStoredReport ==
    (resultsDisplay = "block" /\ pc = "idle") =>
        /\ HasReportResults
        /\ LET results == currentResults[1].results.items
               successes == {i \in 1..Len(results) :
                                /\ Has(results[i], "status")
                                /\ results[i].status = <<"success">>}
           IN  /\ totalCount = Len(results)
               /\ successCount = Cardinality(successes)
               /\ errorCount = Len(results) - Cardinality(successes)
               /\ Shown(invoiceList) = Shown(results)

\* The last run ended Failed before it stored a report of its own: whatever
\* is stored is the report of a run before it
FailedBeforeStoring ==
    /\ RunState = "Failed"
    /\ apiErrorText \notin {InvalidFormatText, <<"Error: ">> \o NullResultsMessage}

\* C23: the stored report is discarded when a new run starts: while a run is
\* Submitting, and after a run has ended Failed, no export writes a file, so
\* none can return the report of the run before.
C23_DiscardedAtRunStart ==
    [][((ExportJSON \/ ExportCSV) /\ (RunState = "Submitting" \/ FailedBeforeStoring)) =>
          download' = download]_vars

\* C25: in every row of the exported table exactly one of data and error is
\* populated according to the status: the Error column is non-empty only
\* when the status is error, and the data columns are non-empty only when
\* the status is success, whatever the remote entry contained.
C25_ErrorOrDataByStatus ==
    [][(ExportCSV /\ HasReportResults /\ PlainResults) =>
          /\ download' # None
          /\ \A content \in {download'[1].content} :
             LET results == currentResults[1].results.items
                 lines == Cut(content, NL)
             IN  \A i \in 1..Len(results) :
                     LET cells == Cut(lines[i + 1], COMMA)
                         status == Unmarked(Unquoted(cells[2]))
                     IN  /\ Unmarked(Unquoted(cells[3])) # <<>>
                             => status = <<"error">>
                         /\ \A k \in 4..Len(cells) :
                                Unmarked(Unquoted(cells[k])) # <<>>
                                    => status = <<"success">>
                         /\ status = <<"error">>
                             => Unmarked(Unquoted(cells[3])) # <<>>]_vars

-----------------------------------------------------------------------------
(* Claims on the connection test *)

\* Test i has ended
Completed(i) == i \in DOMAIN probes /\ probes[i].outcome # None

\* Test i ends in this step with a health value that marks the endpoint
\* unreachable, says why, and is what the page then says
EndsUnreachable(i) ==
    /\ Completed(i)'
    /\ ~probes'[i].outcome[1].reachable
    /\ probes'[i].outcome[1].detail # <<>>
    /\ connectionStatus' = probes'[i].outcome[1].detail
    /\ connected' = connected
    /\ Len(probes) = 1 => ~connected'

\* C21: every test of the connection completes with a health value and never
\* with an uncaught error: a 2xx response gives reachable = true, any other
\* status, a transport failure or the wait ceiling gives reachable = false
\* with a non-empty detail, and no test stays unanswered for ever.
C21_ProbeCompletes ==
    /\ [](\A i \in DOMAIN probes :
              Completed(i) => probes[i].outcome[1].detail # <<>>)
    /\ [][\A i \in 1..MaxProbes :
              /\ \A status \in ProbeStatuses :
                     ProbeResolves(i, status) =>
                         IF status \in 200..299
                         THEN /\ probes'[i].outcome = Some(Health(TRUE, ConnectedText))
                              /\ connected'
                              /\ connectionStatus' = ConnectedText
                         ELSE EndsUnreachable(i)
              /\ (ProbeFails(i) \/ ProbeTimeout(i)) => EndsUnreachable(i)]_vars
    /\ \A i \in 1..MaxProbes : Pending(i) ~> Completed(i)

\* A test ended by its wait ceiling, the endpoint marked unreachable
C21_Witness ==
    /\ Len(probes) = 1
    /\ probes[1].outcome = Some(Health(FALSE, ConnectionFailedText(TimeoutMessage)))
    /\ connectionStatus = ConnectionFailedText(TimeoutMessage)
    /\ ~connected

\* C22: the connection test never gates a run: in every state where no run
\* is in flight and the API URL field is not blank, a run can be started and
\* issues its request, whether the last test reported the endpoint
\* unreachable, a test is in flight, or no test ever ran.
\* What the click on the Check button asks for is true whenever no run is in
\* flight, and the click then issues the run's request and leaves the tests
\* and what they display alone.
C22_ProbeNeverGates ==
    /\ [](pc = "idle" => (alertMessage = None /\ ~checkButtonDisabled))
    /\ [][\A text \in ReportTexts :
              (CheckInvoices(text) /\ Trim(apiUrlValue) # <<>>) =>
                  /\ pc' = "fetch"
                  /\ Len(requests') = 1
                  /\ requests'[1].url = Trim(apiUrlValue)
                  /\ probeVars' = probeVars]_vars

\* A run in flight to the production URL, started while the test of that URL
\* is unanswered and after the test before it was started, which reported
\* the endpoint unreachable
C22_Witness ==
    /\ Len(probes) = 2
    /\ probes[1].url # TestUrl(PRODUCTION_API_URL)
    /\ Completed(1)
    /\ ~probes[1].outcome[1].reachable
    /\ probes[2].url = TestUrl(PRODUCTION_API_URL)
    /\ Pending(2)
    /\ ~connected
    /\ pc = "fetch"
    /\ Len(requests) = 1
    /\ requests[1].url = PRODUCTION_API_URL

\* C28: once all the tests started have completed, the indicator and the
\* status text show the outcome of the test started last, never that of an
\* earlier test that was answered late.
C28_LatestProbeShown ==
    (probes # <<>> /\ \A i \in DOMAIN probes : Completed(i)) =>
        /\ connected = probes[Len(probes)].outcome[1].reachable
        /\ connectionStatus = probes[Len(probes)].outcome[1].detail

-----------------------------------------------------------------------------
(* Claims on the stored report *)

\* The file saved last is the JSON export of the report stored now
ExportedStoredReport ==
    /\ download # None
    /\ download[1].type = "application/json"
    /\ HasReportResults
    /\ IsReport(JsonParse(download[1].content), currentResults[1])

\* C24: the stored report is never mutated after its construction: exports,
\* in any number and interleaving, connection tests and the display of
\* results leave it unchanged, it changes only by being replaced as a whole
\* by the report of a later run, and a second export of the same report has
\* the content of the first.
C24_ReportNeverMutated ==
    /\ [][currentResults' # currentResults =>
              \E data \in PagePayloads :
                  /\ JsonArrives(data)
                  /\ currentResults' = Some(Report(now, apiUrl, invoiceNumbers, data))]_vars
    /\ [][(ExportedStoredReport /\ ExportJSON) =>
              download'[1].content = download[1].content]_vars

\* The report exported after a connection test has completed, a run being
\* in flight since
C24_Witness ==
    /\ ExportedStoredReport
    /\ Completed(1)
    /\ pc = "json"

-----------------------------------------------------------------------------
(* Claims on the single-invoice programs *)

\* C26: every single-identifier check applies a bounded wait ceiling: a check
\* that waits for the remote service eventually ends, with a timeout error
\* when the remote service never answers.
C26_EveryCheckEnds ==
    \A c \in CheckerNames : Waiting(c) ~> (checkers[c].pc = "ended")

\* C29: the single-invoice page has at most one request in flight at any
\* time, so that the result shown once every request has been answered is
\* that of the invoice number submitted last.
C29_OneInvoiceRequest ==
    /\ Cardinality({i \in DOMAIN invoicePage.requests : InFlight(i)}) <= 1
    /\ (/\ invoicePage.requests # <<>>
        /\ \A i \in DOMAIN invoicePage.requests : ~InFlight(i)
        /\ invoicePage.resultDisplay = "block")
       => \E data \in InvoiceBodies(invoicePage.requests[Len(invoicePage.requests)].invoiceNumber) :
              /\ data.data # None
              /\ invoicePage.resultContent = displayInvoiceDetails(data.data[1])

====
